---- MODULE Spec2Model ----
(***************************************************************************)
(* The application factory of src/__init__.py: create_app builds a Flask   *)
(* instance with the template folder "templates" and the static folder     *)
(* "static", registers GET /health (returns "ok") and GET /                *)
(* (render_template("main.html")), and returns it.                         *)
(*                                                                         *)
(* The factory only composes framework calls, so what a request gets is    *)
(* decided by what those calls mean.  The model states that meaning next   *)
(* to the call it belongs to: Flask(...) and app.get(...) build the URL    *)
(* map, the router matches a request against it, full_dispatch_request     *)
(* runs the view function and turns its return value or its exception      *)
(* into the response.                                                      *)
(*                                                                         *)
(* A path is the sequence of its segments after the leading slash:         *)
(*   "/" = <<"">>, "/health" = <<"health">>, "/health/" = <<"health","">>, *)
(*   "/static/a.css" = <<"static","a.css">>.                               *)
(***************************************************************************)
EXTENDS Naturals, Sequences, FiniteSets, TLC

VARIABLES
    heap,         \* the Flask instances alive, by object identity
    returned,     \* what each call of create_app returned, in call order
    templates,    \* what the template engine resolves each template name to
    staticFiles,  \* the files present in the static folder
    slots,        \* the requests the host server has in flight
    failed        \* history: the instances that have answered a 500

vars == <<heap, returned, templates, staticFiles, slots, failed>>

\* Bounds of the model.
MaxApps == 2
MaxInflight == 2

----------------------------------------------------------------------------
(* The inputs the model draws from. *)

Methods == {"GET", "HEAD", "OPTIONS", "POST", "PUT", "DELETE", "PATCH"}

Paths == { <<"">>, <<"health">>, <<"health", "">>,
           <<"nonexistent">>, <<"static">>, <<"static", "a.css">> }

Queries == {"", "probe=1"}

UpgradeHeaders == { <<"Connection", "Upgrade">>, <<"Upgrade", "websocket">> }

HeaderSets == { {}, { <<"X-Probe", "1">> }, UpgradeHeaders }

Bodies == {"", "payload"}

\* Every method on every path with every set of headers, without and with
\* a query string, and with a query string and a body.
Requests ==
    [method : Methods, path : Paths, query : Queries,
     headers : HeaderSets, body : {""}]
    \cup [method : Methods, path : Paths, query : Queries \ {""},
          headers : HeaderSets, body : Bodies \ {""}]

\* The requests of the concurrent specification: one of each kind of answer.
ConcRequests ==
    [method : {"GET"}, path : { <<"">>, <<"health">>, <<"static", "a.css">> },
     query : {""}, headers : {{}}, body : {""}]
    \cup [method : {"POST"}, path : { <<"health">> },
          query : {""}, headers : {{}}, body : {""}]

TemplateNames == {"main.html"}

\* What the engine finds under a name: nothing, a template that fails to
\* render, a template without variables, a template that prints {{ title }}.
Renderable == {"static-page", "uses-title"}
TemplateStates == {"missing", "broken"} \cup Renderable

StaticNames == { <<"a.css">> }

----------------------------------------------------------------------------
(* Flask(__name__, template_folder=..., static_folder=...) and app.get.    *)

PathConverter == "<path:filename>"

\* A set static_folder makes the constructor register the static route
\* /<static_folder>/<path:filename>, endpoint "static".
Flask(template_folder, static_folder) ==
    [ template_folder   |-> template_folder,
      static_folder     |-> static_folder,
      url_map           |-> IF static_folder = "" THEN {}
                            ELSE { [ rule     |-> <<static_folder, PathConverter>>,
                                     endpoint |-> "static",
                                     methods  |-> {"GET", "HEAD", "OPTIONS"},
                                     websocket |-> FALSE,
                                     provide_automatic_options |-> TRUE ] },
      view_functions    |-> IF static_folder = "" THEN {} ELSE {"static"},
      got_first_request |-> FALSE ]

\* Variant: the route also accepts POST.
app_get_post(app, rule, endpoint) ==
    [ app EXCEPT
        !.url_map = @ \cup { [ rule     |-> rule,
                               endpoint |-> endpoint,
                               methods  |-> {"GET", "POST", "HEAD", "OPTIONS"},
                               websocket |-> FALSE,
                               provide_automatic_options |-> TRUE ] },
        !.view_functions = @ \cup {endpoint} ]

\* @app.get(rule): route(rule, methods=["GET"]).  add_url_rule adds OPTIONS
\* (automatic options) and the Rule adds HEAD to a rule that allows GET.
app_get(app, rule, endpoint) ==
    [ app EXCEPT
        !.url_map = @ \cup { [ rule     |-> rule,
                               endpoint |-> endpoint,
                               methods  |-> {"GET"} \cup {"HEAD"} \cup {"OPTIONS"},
                               websocket |-> FALSE,
                               provide_automatic_options |-> TRUE ] },
        !.view_functions = @ \cup {endpoint} ]

\* Variant: a third route is registered.
create_app_extra ==
    app_get(app_get(app_get(Flask("templates", "static"),
                            <<"health">>, "health"),
                    <<"">>, "index"),
            <<"nonexistent">>, "index")

\* Variant: the factory looks for main.html and drops the template folder
\* when it is missing.
create_app_probing ==
    app_get(app_get(Flask(IF templates["main.html"] = "missing" THEN "" ELSE "templates",
                          "static"),
                    <<"health">>, "health"),
            <<"">>, "index")

\* The value create_app returns.
create_app ==
    app_get(app_get(Flask("templates", "static"),
                    <<"health">>, "health"),
            <<"">>, "index")

\* The three settings the spec calls the instance's configuration.
Config(app) == [ template_folder |-> app.template_folder,
                 static_folder   |-> app.static_folder,
                 url_map         |-> app.url_map ]

\* A module-level singleton in place of a fresh object.
SingletonId == IF DOMAIN heap = {} THEN Cardinality(DOMAIN heap) + 1
               ELSE CHOOSE a \in DOMAIN heap : TRUE

\* A call of the constructor allocates a new object.
NewInstanceId == Cardinality(DOMAIN heap) + 1

----------------------------------------------------------------------------
(* The view functions and what they call. *)

\* What a view call yields: a bare str (no mimetype of its own), a Response
\* object with its mimetype, or an exception.
Return(v) == [raised |-> FALSE, value |-> v, mimetype |-> ""]
ReturnResponse(v, mimetype) == [raised |-> FALSE, value |-> v, mimetype |-> mimetype]
Raise(e)  == [raised |-> TRUE,  value |-> e, mimetype |-> ""]

\* The engine's output for a template source and a context (the names of the
\* variables passed); an undefined variable prints as nothing.
Render(src, context) ==
    CASE src = "static-page" -> "<h1>Welcome</h1>"
      [] src = "uses-title"  -> IF "title" \in context THEN "<h1>Home</h1>"
                                ELSE "<h1></h1>"

\* Variant: a failed lookup is remembered and repeated.
render_template_latched(name, context) ==
    IF failed # {} \/ name \notin DOMAIN templates \/ templates[name] = "missing"
    THEN Raise("TemplateNotFound")
    ELSE IF templates[name] = "broken"
    THEN Raise("TemplateSyntaxError")
    ELSE Return(Render(templates[name], context))

\* render_template(name, **context): the engine resolves the name in the
\* template folder and renders what it finds, or raises.
render_template(name, context) ==
    IF name \notin DOMAIN templates \/ templates[name] = "missing"
    THEN Raise("TemplateNotFound")
    ELSE IF templates[name] = "broken"
    THEN Raise("TemplateSyntaxError")
    ELSE Return(Render(templates[name], context))

\* Variant: another body.
health_upper == Return("OK")

\* Variant: the body depends on whether a request was served before.
health_stateful ==
    IF \E a \in DOMAIN heap : heap[a].got_first_request
    THEN Return("ok (warm)") ELSE Return("ok")

health == Return("ok")

\* Variant: the view catches the rendering error and answers a page.
index_catching ==
    IF render_template("main.html", {}).raised
    THEN Return("<h1>Unavailable</h1>")
    ELSE render_template("main.html", {})

\* Variant: another template name.
index_wrong_name == render_template("index.html", {})

index == render_template("main.html", {})

\* The static route's view: send_static_file(filename).
send_static_file(filename) ==
    IF filename \in staticFiles
    THEN ReturnResponse("body{}", "text/css; charset=utf-8")
    ELSE Raise("NotFound")

----------------------------------------------------------------------------
(* The router: the URL map built above, matched against a request. *)

\* The request is a WebSocket handshake: Connection: Upgrade with
\* Upgrade: websocket.  The rules registered here are HTTP rules.
is_websocket(req) == UpgradeHeaders \subseteq req.headers

\* A rule without a trailing slash matches its own path only (strict
\* slashes); <path:filename> takes the non-empty rest of the path.
RuleMatches(rule, path) ==
    LET n == Len(rule.rule) IN
    IF rule.rule[n] = PathConverter
    THEN /\ Len(path) >= n
         /\ SubSeq(path, 1, n - 1) = SubSeq(rule.rule, 1, n - 1)
         /\ path[n] # ""
    ELSE path = rule.rule

NoRoute == [endpoint |-> "", filename |-> <<>>, exc |-> 0, allow |-> {}]

\* The rules that match the path, the method and the kind of connection.
Matching(app, req, path) ==
    { r \in app.url_map : /\ RuleMatches(r, path)
                          /\ req.method \in r.methods
                          /\ r.websocket = is_websocket(req) }

\* Rules of a matching path accumulate: first the methods of those that
\* refuse the method, then a mismatch of the kind of connection.
match_request(app, req) ==
    LET onPath == { r \in app.url_map : RuleMatches(r, req.path) }
        refuse == { r \in onPath : req.method \notin r.methods }
        haveMatchFor == UNION { r.methods : r \in refuse }
    IN  IF Matching(app, req, req.path) # {}
        THEN LET r == CHOOSE x \in Matching(app, req, req.path) : TRUE IN
             [ endpoint |-> r.endpoint,
               filename |-> IF r.rule[Len(r.rule)] = PathConverter
                            THEN SubSeq(req.path, Len(r.rule), Len(req.path))
                            ELSE <<>>,
               exc      |-> 0,
               allow    |-> r.methods ]
        ELSE IF haveMatchFor # {}
        THEN [NoRoute EXCEPT !.exc = 405, !.allow = haveMatchFor]
        ELSE IF onPath # {}
        THEN [NoRoute EXCEPT !.exc = 400]
        ELSE [NoRoute EXCEPT !.exc = 404]

----------------------------------------------------------------------------
(* Dispatch: from the routed request to the response. *)

HtmlType == "text/html; charset=utf-8"

NoResponse == [status |-> 0, body |-> "", content_type |-> "", allow |-> {},
               view |-> ""]

ErrorPage(code) ==
    CASE code = 400 -> "Bad Request"
      [] code = 404 -> "Not Found"
      [] code = 405 -> "Method Not Allowed"
      [] code = 500 -> "Internal Server Error"

\* The framework's own answer for an HTTP exception; view is the view
\* function that ran and raised it, "" when none ran.
ErrorResponse(code, allow, view) ==
    [status |-> code, body |-> ErrorPage(code), content_type |-> HtmlType,
     allow |-> allow, view |-> view]

\* Variant: a bare str is sent as text/plain.
make_response_plain(rv, view) ==
    [status |-> 200, body |-> rv.value,
     content_type |-> IF rv.mimetype = "" THEN "text/plain; charset=utf-8"
                      ELSE rv.mimetype,
     allow |-> {}, view |-> view]

\* A bare str becomes a 200 response with the default mimetype, text/html.
make_response(rv, view) ==
    [status |-> 200, body |-> rv.value,
     content_type |-> IF rv.mimetype = "" THEN HtmlType ELSE rv.mimetype,
     allow |-> {}, view |-> view]

\* view_functions[endpoint](**view_args)
CallView(app, endpoint, filename) ==
    CASE endpoint = "health" -> health
      [] endpoint = "index"  -> index
      [] endpoint = "static" -> send_static_file(filename)

\* dispatch_request with the exception handling around it: a routing
\* exception is answered as it is, OPTIONS is answered automatically, an
\* HTTP exception raised by the view is its own response, and any other
\* exception becomes the 500 answer.
dispatch_request(app, req, routed) ==
    IF routed.exc # 0
    THEN ErrorResponse(routed.exc, routed.allow, "")
    ELSE IF req.method = "OPTIONS"
    THEN [status |-> 200, body |-> "", content_type |-> HtmlType,
          allow |-> routed.allow, view |-> ""]
    ELSE LET rv == CallView(app, routed.endpoint, routed.filename) IN
         IF ~rv.raised THEN make_response(rv, routed.endpoint)
         ELSE IF rv.value = "NotFound"
         THEN ErrorResponse(404, {}, routed.endpoint)
         ELSE ErrorResponse(500, {}, routed.endpoint)

\* The response as the server sends it: a HEAD response carries no body.
full_dispatch_request(app, req, routed) ==
    LET resp == dispatch_request(app, req, routed) IN
    IF req.method = "HEAD" THEN [resp EXCEPT !.body = ""] ELSE resp

\* The response of a fresh instance that serves req and nothing else.
ServedAlone(req) ==
    full_dispatch_request(create_app, req, match_request(create_app, req))

----------------------------------------------------------------------------
(* The state machine. *)

Slots == 1..MaxInflight

IdleSlot == [pc |-> "idle", app |-> 0, request |-> <<>>, routed |-> NoRoute,
             response |-> NoResponse]

Busy(s) == slots[s].pc # "idle"

Init ==
    /\ heap = <<>>
    /\ returned = <<>>
    /\ templates \in [TemplateNames -> TemplateStates]
    /\ staticFiles \in SUBSET StaticNames
    /\ slots = [s \in Slots |-> IdleSlot]
    /\ failed = {}

\* The host calls create_app().
CallCreateApp ==
    /\ Len(returned) < MaxApps
    /\ LET id == NewInstanceId IN
         /\ heap' = (id :> create_app) @@ heap
         /\ returned' = Append(returned, id)
    /\ UNCHANGED <<templates, staticFiles, slots, failed>>

Accept(s, a, req) ==
    /\ slots' = [slots EXCEPT ![s] = [IdleSlot EXCEPT !.pc = "received",
                                                      !.app = a,
                                                      !.request = req]]
    /\ UNCHANGED <<heap, returned, templates, staticFiles, failed>>

\* The server hands one request at a time to an instance.
Receive ==
    /\ \A s \in Slots : ~Busy(s)
    /\ \E a \in DOMAIN heap, req \in Requests : Accept(1, a, req)

\* The server hands a request to the instance while others are in flight
\* on it; the first free worker takes it.
ReceiveConcurrent ==
    \E s \in Slots, a \in DOMAIN heap, req \in ConcRequests :
        /\ ~Busy(s)
        /\ \A t \in Slots : t < s => Busy(t)
        /\ \A t \in Slots : Busy(t) => slots[t].app = a
        /\ Accept(s, a, req)

\* Pushing the request context matches the URL.
Route(s) ==
    /\ slots[s].pc = "received"
    /\ slots' = [slots EXCEPT ![s].pc = "routed",
                              ![s].routed = match_request(heap[slots[s].app],
                                                          slots[s].request)]
    /\ UNCHANGED <<heap, returned, templates, staticFiles, failed>>

\* What serving a request leaves on the instance.
AfterRequest(h, a) == [h EXCEPT ![a].got_first_request = TRUE]

Dispatch(s) ==
    /\ slots[s].pc = "routed"
    /\ LET a    == slots[s].app
           resp == full_dispatch_request(heap[a], slots[s].request,
                                         slots[s].routed)
       IN  /\ slots' = [slots EXCEPT ![s].pc = "done", ![s].response = resp]
           /\ heap' = AfterRequest(heap, a)
           /\ failed' = IF resp.status = 500 THEN failed \cup {a} ELSE failed
    /\ UNCHANGED <<returned, templates, staticFiles>>

\* The response is sent and the request context popped.
Complete(s) ==
    /\ slots[s].pc = "done"
    /\ slots' = [slots EXCEPT ![s] = IdleSlot]
    /\ UNCHANGED <<heap, returned, templates, staticFiles, failed>>

\* The deployment changes what the engine resolves a template name to.
EditTemplate ==
    /\ \E t \in [TemplateNames -> TemplateStates] :
          t # templates /\ templates' = t
    /\ UNCHANGED <<heap, returned, staticFiles, slots, failed>>

\* The deployment adds or removes a static file.
EditStatic ==
    /\ \E f \in SUBSET StaticNames : f # staticFiles /\ staticFiles' = f
    /\ UNCHANGED <<heap, returned, templates, slots, failed>>

Next ==
    \/ CallCreateApp
    \/ Receive
    \/ \E s \in Slots : Route(s)
    \/ \E s \in Slots : Dispatch(s)
    \/ \E s \in Slots : Complete(s)
    \/ EditTemplate
    \/ EditStatic

Spec == Init /\ [][Next]_vars

\* Requests in flight together on one instance, the deployment left alone.
NextConc ==
    \/ CallCreateApp
    \/ ReceiveConcurrent
    \/ \E s \in Slots : Route(s)
    \/ \E s \in Slots : Dispatch(s)
    \/ \E s \in Slots : Complete(s)

ConcSpec == Init /\ [][NextConc]_vars

TypeOK ==
    /\ DOMAIN heap \subseteq 1..MaxApps
    /\ failed \subseteq DOMAIN heap
    /\ \A s \in Slots : slots[s].pc \in {"idle", "received", "routed", "done"}

----------------------------------------------------------------------------
(* The claims. *)

Done(s) == slots[s].pc = "done"
Req(s)  == slots[s].request
Resp(s) == slots[s].response

\* Slot s takes the step from the routed request to its response.
Dispatched(s) == slots[s].pc = "routed" /\ slots'[s].pc = "done"

Root == <<"">>
HealthPath == <<"health">>

\* The path addresses a file of the static folder.
StaticAddressed(path) == Len(path) >= 2 /\ path[1] = "static" /\ path[2] # ""

\* C1 as stated: every GET /health, whatever query, headers and body it
\* carries and whatever was served before, is answered 200 with body "ok".
C1_HealthAlwaysOk ==
    \A s \in Slots :
        Done(s) /\ Req(s).method = "GET" /\ Req(s).path = HealthPath
        => Resp(s).status = 200 /\ Resp(s).body = "ok"

\* C1 as amended: GET /health is answered 200 "ok" whatever query, body and
\* headers it carries and whatever was served before, except when the
\* headers make it a WebSocket handshake, which the router answers 400
\* without running health.
C1_HealthOkUnlessUpgrade ==
    \A s \in Slots :
        Done(s) /\ Req(s).method = "GET" /\ Req(s).path = HealthPath
        => IF is_websocket(Req(s))
           THEN Resp(s).status = 400 /\ Resp(s).view = ""
           ELSE Resp(s).status = 200 /\ Resp(s).body = "ok"
                /\ Resp(s).view = "health"

C1_Witness ==
    \E s \in Slots :
        /\ Done(s) /\ Req(s).method = "GET" /\ Req(s).path = HealthPath
        /\ Req(s).query # "" /\ Req(s).body # ""
        /\ Req(s).headers = { <<"X-Probe", "1">> }
        /\ slots[s].app \in failed
        /\ Resp(s).status = 200 /\ Resp(s).body = "ok"

C4_RenderFailureIs500 ==
    [][ \A s \in Slots :
          Dispatched(s) /\ Req(s).method = "GET" /\ Req(s).path = Root
                        /\ templates["main.html"] \notin Renderable
          => /\ slots'[s].response.status # 200
             /\ ~is_websocket(Req(s))
                => slots'[s].response = ErrorResponse(500, {}, "index") ]_vars

C4_Witness ==
    \E s \in Slots :
        /\ Done(s) /\ Req(s).method = "GET" /\ Req(s).path = Root
        /\ Resp(s).status = 500 /\ Resp(s).view = "index"

\* C5: when main.html exists and renders, GET / is answered 200 with the
\* template rendered with no variables as the body.
C5_IndexRendersMain ==
    [][ \A s \in Slots :
          Dispatched(s) /\ Req(s).method = "GET" /\ Req(s).path = Root
                        /\ ~is_websocket(Req(s))
                        /\ templates["main.html"] \in Renderable
          => /\ slots'[s].response.status = 200
             /\ slots'[s].response.body = Render(templates["main.html"], {})
             /\ slots'[s].response.view = "index" ]_vars

C5_Witness ==
    \E s \in Slots :
        /\ Done(s) /\ Req(s).method = "GET" /\ Req(s).path = Root
        /\ Resp(s).status = 200 /\ Resp(s).body = "<h1></h1>"

\* C6: the calls of create_app return pairwise distinct instances with
\* identical route tables and settings; a call leaves the instances made
\* before untouched, and serving on one instance changes no other.
C6_FactoryIdempotent ==
    [][ /\ \A i, j \in 1..Len(returned') :
              i # j => returned'[i] # returned'[j]
        /\ \A i \in 1..Len(returned') : returned'[i] \in DOMAIN heap'
        /\ \A a, b \in DOMAIN heap' :
              /\ Config(heap'[a]) = Config(heap'[b])
              /\ heap'[a].view_functions = heap'[b].view_functions
        /\ Len(returned') > Len(returned)
              => \A a \in DOMAIN heap : a \in DOMAIN heap' /\ heap'[a] = heap[a]
        /\ \A s \in Slots :
              Dispatched(s)
              => \A b \in DOMAIN heap : b # slots[s].app => heap'[b] = heap[b]
      ]_vars

C6_Witness ==
    /\ Len(returned) = 2 /\ returned[1] # returned[2]
    /\ heap[returned[1]].got_first_request
    /\ ~heap[returned[2]].got_first_request
    /\ Config(heap[returned[1]]) = Config(heap[returned[2]])

PlainTextTypes == {"text/plain", "text/plain; charset=utf-8"}

\* C7 as stated: the answer to GET /health carries a plain-text content
\* type and the answer to a successful GET / an HTML content type.
C7_HealthPlainIndexHtml ==
    \A s \in Slots :
        Done(s) /\ Req(s).method = "GET" /\ Resp(s).status = 200
        => /\ Req(s).path = HealthPath => Resp(s).content_type \in PlainTextTypes
           /\ Req(s).path = Root => Resp(s).content_type = HtmlType

\* C7 as amended: the answer to GET /health and the answer to a successful
\* GET / both carry the content type text/html; charset=utf-8, the
\* framework's default for a view that returns a str.
C7_BothHtml ==
    \A s \in Slots :
        Done(s) /\ Req(s).method = "GET" /\ Resp(s).status = 200
                /\ Req(s).path \in {Root, HealthPath}
        => Resp(s).content_type = HtmlType

C7_Witness ==
    \E s \in Slots :
        /\ Done(s) /\ Req(s).method = "GET" /\ Req(s).path = HealthPath
        /\ Resp(s).status = 200 /\ Resp(s).body = "ok"
        /\ Resp(s).content_type = HtmlType

\* C8: on an instance that has answered 500 before, GET /health is still
\* answered 200 "ok", GET / is answered 200 as soon as main.html resolves
\* and renders, and a request answered 500 leaves on the instance what any
\* served request leaves.
C8_FailureIsPerRequest ==
    [][ \A s \in Slots :
          Dispatched(s)
          => LET a    == slots[s].app
                 req  == Req(s)
                 resp == slots'[s].response
             IN  /\ a \in failed /\ req.method = "GET" /\ ~is_websocket(req)
                    => /\ req.path = HealthPath
                          => resp.status = 200 /\ resp.body = "ok"
                       /\ req.path = Root /\ templates["main.html"] \in Renderable
                          => /\ resp.status = 200
                             /\ resp.body = Render(templates["main.html"], {})
                 /\ resp.status = 500
                    => /\ a \in failed'
                       /\ heap'[a] = [heap[a] EXCEPT !.got_first_request = TRUE]
      ]_vars

C8_Witness ==
    \E s \in Slots :
        /\ Done(s) /\ slots[s].app \in failed
        /\ Req(s).method = "GET" /\ Req(s).path = Root
        /\ Resp(s).status = 200

\* C9: with requests in flight together on one instance, under every
\* interleaving each finished request has the response it gets when a
\* fresh instance serves it alone.
C9_SameAsServedAlone ==
    \A s \in Slots : Done(s) => Resp(s) = ServedAlone(Req(s))

C9_Witness ==
    \E s, t \in Slots :
        /\ s # t /\ Done(s) /\ slots[t].pc = "routed"
        /\ slots[s].app = slots[t].app
        /\ Req(s).path = Root /\ Req(t).path = HealthPath
        /\ Req(s).method = "GET" /\ Req(t).method = "GET"
        /\ heap[slots[s].app].got_first_request

FixedRules == { <<"static", PathConverter>>, HealthPath, Root }

\* C10: every instance is made with the template folder "templates", the
\* static folder "static" and the three rules, whatever the template and
\* static folders hold; the call touches neither folder; and no step,
\* request served or failed, changes the settings of an instance.
C10_ConfigFixedAtCreation ==
    [][ /\ \A a \in DOMAIN heap :
              a \in DOMAIN heap' /\ Config(heap'[a]) = Config(heap[a])
        /\ \A a \in DOMAIN heap' \ DOMAIN heap :
              /\ heap'[a].template_folder = "templates"
              /\ heap'[a].static_folder = "static"
              /\ { r.rule : r \in heap'[a].url_map } = FixedRules
              /\ ~heap'[a].got_first_request
              /\ templates' = templates /\ staticFiles' = staticFiles
      ]_vars

C10_Witness ==
    \E a \in failed :
        /\ templates["main.html"] = "missing"
        /\ heap[a].got_first_request
        /\ heap[a].template_folder = "templates"
        /\ heap[a].static_folder = "static"
        /\ { r.rule : r \in heap[a].url_map } = FixedRules

====
